---- MODULE Spec2Model ----
(***************************************************************************)
(* Model of openbb_terminal/portfolio/portfolio_optimization/              *)
(* optimizer_view.py: the name-translation tables, the console and chart   *)
(* helpers, and the public display_* functions as one action each.  The    *)
(* optimizer, the weight builders, the risk scorer and the rendering sinks *)
(* are collaborators: what they return is drawn with \E.                   *)
(*                                                                         *)
(* A Python str is a sequence of one-character strings, so that lower(),   *)
(* upper(), slicing and replace() are computed, not assumed.  A float      *)
(* weight is an integer number of hundredths.                              *)
(***************************************************************************)
EXTENDS Integers, Sequences, FiniteSets, TLC

VARIABLES fn, args, trace, result, module

vars == <<fn, args, trace, result, module>>

Range(s) == {s[i] : i \in 1..Len(s)}

\* A dict literal: the keys of the rows, each bound to the value of its last row.
DictOf(rows) ==
    [k \in {r[1] : r \in Range(rows)} |->
        LET i == CHOOSE i \in 1..Len(rows) :
                     /\ rows[i][1] = k
                     /\ \A j \in (i + 1)..Len(rows) : rows[j][1] # k
        IN  rows[i][2]]

\* str.lower() and str.upper(), character by character.
LowerChar(c) ==
    CASE c = "A" -> "a"
      [] c = "B" -> "b"
      [] c = "C" -> "c"
      [] c = "D" -> "d"
      [] c = "E" -> "e"
      [] c = "F" -> "f"
      [] c = "G" -> "g"
      [] c = "H" -> "h"
      [] c = "I" -> "i"
      [] c = "J" -> "j"
      [] c = "K" -> "k"
      [] c = "L" -> "l"
      [] c = "M" -> "m"
      [] c = "N" -> "n"
      [] c = "O" -> "o"
      [] c = "P" -> "p"
      [] c = "Q" -> "q"
      [] c = "R" -> "r"
      [] c = "S" -> "s"
      [] c = "T" -> "t"
      [] c = "U" -> "u"
      [] c = "V" -> "v"
      [] c = "W" -> "w"
      [] c = "X" -> "x"
      [] c = "Y" -> "y"
      [] c = "Z" -> "z"
      [] OTHER -> c

UpperChar(c) ==
    CASE c = "a" -> "A"
      [] c = "b" -> "B"
      [] c = "c" -> "C"
      [] c = "d" -> "D"
      [] c = "e" -> "E"
      [] c = "f" -> "F"
      [] c = "g" -> "G"
      [] c = "h" -> "H"
      [] c = "i" -> "I"
      [] c = "j" -> "J"
      [] c = "k" -> "K"
      [] c = "l" -> "L"
      [] c = "m" -> "M"
      [] c = "n" -> "N"
      [] c = "o" -> "O"
      [] c = "p" -> "P"
      [] c = "q" -> "Q"
      [] c = "r" -> "R"
      [] c = "s" -> "S"
      [] c = "t" -> "T"
      [] c = "u" -> "U"
      [] c = "v" -> "V"
      [] c = "w" -> "W"
      [] c = "x" -> "X"
      [] c = "y" -> "Y"
      [] c = "z" -> "Z"
      [] OTHER -> c

Upper(s) == [i \in 1..Len(s) |-> UpperChar(s[i])]

LowerIdentity(s) == s

Lower(s) == [i \in 1..Len(s) |-> LowerChar(s[i])]

objectives_choices_rows ==
    << << <<"m", "i", "n", "r", "i", "s", "k">>,
         <<"M", "i", "n", "R", "i", "s", "k">> >>,
       << <<"s", "h", "a", "r", "p", "e">>,
         <<"S", "h", "a", "r", "p", "e">> >>,
       << <<"u", "t", "i", "l", "i", "t", "y">>,
         <<"U", "t", "i", "l", "i", "t", "y">> >>,
       << <<"m", "a", "x", "r", "e", "t">>,
         <<"M", "a", "x", "R", "e", "t">> >>,
       << <<"e", "r", "c">>,
         <<"E", "R", "C">> >> >>

objectives_choices == module.objectives_choices

risk_names_rows ==
    << << <<"m", "v">>,
         <<"v", "o", "l", "a", "t", "i", "l", "i", "t", "y">> >>,
       << <<"m", "a", "d">>,
         <<"m", "e", "a", "n", " ", "a", "b", "s", "o", "l", "u", "t", "e", " ", "d", "e", "v", "i", "a", "t", "i", "o", "n">> >>,
       << <<"g", "m", "d">>,
         <<"g", "i", "n", "i", " ", "m", "e", "a", "n", " ", "d", "i", "f", "f", "e", "r", "e", "n", "c", "e">> >>,
       << <<"m", "s", "v">>,
         <<"s", "e", "m", "i", " ", "s", "t", "a", "n", "d", "a", "r", "d", " ", "d", "e", "v", "i", "a", "t", "i", "o", "n">> >>,
       << <<"v", "a", "r">>,
         <<"v", "a", "l", "u", "e", " ", "a", "t", " ", "r", "i", "s", "k", " ", "(", "V", "a", "R", ")">> >>,
       << <<"c", "v", "a", "r">>,
         <<"c", "o", "n", "d", "i", "t", "i", "o", "n", "a", "l", " ", "v", "a", "l", "u", "e", " ", "a", "t", " ", "r", "i", "s", "k", " ", "(", "C", "V", "a", "R", ")">> >>,
       << <<"t", "g">>,
         <<"t", "a", "i", "l", " ", "g", "i", "n", "i">> >>,
       << <<"e", "v", "a", "r">>,
         <<"e", "n", "t", "r", "o", "p", "i", "c", " ", "v", "a", "l", "u", "e", " ", "a", "t", " ", "r", "i", "s", "k", " ", "(", "E", "V", "a", "R", ")">> >>,
       << <<"r", "g">>,
         <<"r", "a", "n", "g", "e">> >>,
       << <<"c", "v", "r", "g">>,
         <<"C", "V", "a", "R", " ", "r", "a", "n", "g", "e">> >>,
       << <<"t", "g", "r", "g">>,
         <<"t", "a", "i", "l", " ", "g", "i", "n", "i", " ", "r", "a", "n", "g", "e">> >>,
       << <<"w", "r">>,
         <<"w", "o", "r", "s", "t", " ", "r", "e", "a", "l", "i", "z", "a", "t", "i", "o", "n">> >>,
       << <<"f", "l", "p", "m">>,
         <<"f", "i", "r", "s", "t", " ", "l", "o", "w", "e", "r", " ", "p", "a", "r", "t", "i", "a", "l", " ", "m", "o", "m", "e", "n", "t">> >>,
       << <<"s", "l", "p", "m">>,
         <<"s", "e", "c", "o", "n", "d", " ", "l", "o", "w", "e", "r", " ", "p", "a", "r", "t", "i", "a", "l", " ", "m", "o", "m", "e", "n", "t">> >>,
       << <<"m", "d", "d">>,
         <<"m", "a", "x", "i", "m", "u", "m", " ", "d", "r", "a", "w", "d", "o", "w", "n", " ", "u", "n", "c", "o", "m", "p", "o", "u", "n", "d", "e", "d">> >>,
       << <<"a", "d", "d">>,
         <<"a", "v", "e", "r", "a", "g", "e", " ", "d", "r", "a", "w", "d", "o", "w", "n", " ", "u", "n", "c", "o", "m", "p", "o", "u", "n", "d", "e", "d">> >>,
       << <<"d", "a", "r">>,
         <<"d", "r", "a", "w", "d", "o", "w", "n", " ", "a", "t", " ", "r", "i", "s", "k", " ", "(", "D", "a", "R", ")", " ", "u", "n", "c", "o", "m", "p", "o", "u", "n", "d", "e", "d">> >>,
       << <<"c", "d", "a", "r">>,
         <<"c", "o", "n", "d", "i", "t", "i", "o", "n", "a", "l", " ", "d", "r", "a", "w", "d", "o", "w", "n", " ", "a", "t", " ", "r", "i", "s", "k", " ", "(", "C", "D", "a", "R", ")", " ", "u", "n", "c", "o", "m", "p", "o", "u", "n", "d", "e", "d">> >>,
       << <<"e", "d", "a", "r">>,
         <<"e", "n", "t", "r", "o", "p", "i", "c", " ", "d", "r", "a", "w", "d", "o", "w", "n", " ", "a", "t", " ", "r", "i", "s", "k", " ", "(", "E", "D", "a", "R", ")", " ", "u", "n", "c", "o", "m", "p", "o", "u", "n", "d", "e", "d">> >>,
       << <<"u", "c", "i">>,
         <<"u", "l", "c", "e", "r", " ", "i", "n", "d", "e", "x", " ", "u", "n", "c", "o", "m", "p", "o", "u", "n", "d", "e", "d">> >>,
       << <<"m", "d", "d", "_", "r", "e", "l">>,
         <<"m", "a", "x", "i", "m", "u", "m", " ", "d", "r", "a", "w", "d", "o", "w", "n", " ", "c", "o", "m", "p", "o", "u", "n", "d", "e", "d">> >>,
       << <<"a", "d", "d", "_", "r", "e", "l">>,
         <<"a", "v", "e", "r", "a", "g", "e", " ", "d", "r", "a", "w", "d", "o", "w", "n", " ", "c", "o", "m", "p", "o", "u", "n", "d", "e", "d">> >>,
       << <<"d", "a", "r", "_", "r", "e", "l">>,
         <<"d", "r", "a", "w", "d", "o", "w", "n", " ", "a", "t", " ", "r", "i", "s", "k", " ", "(", "D", "a", "R", ")", " ", "c", "o", "m", "p", "o", "u", "n", "d", "e", "d">> >>,
       << <<"c", "d", "a", "r", "_", "r", "e", "l">>,
         <<"c", "o", "n", "d", "i", "t", "i", "o", "n", "a", "l", " ", "d", "r", "a", "w", "d", "o", "w", "n", " ", "a", "t", " ", "r", "i", "s", "k", " ", "(", "C", "D", "a", "R", ")", " ", "c", "o", "m", "p", "o", "u", "n", "d", "e", "d">> >>,
       << <<"e", "d", "a", "r", "_", "r", "e", "l">>,
         <<"e", "n", "t", "r", "o", "p", "i", "c", " ", "d", "r", "a", "w", "d", "o", "w", "n", " ", "a", "t", " ", "r", "i", "s", "k", " ", "(", "E", "D", "a", "R", ")", " ", "c", "o", "m", "p", "o", "u", "n", "d", "e", "d">> >>,
       << <<"u", "c", "i", "_", "r", "e", "l">>,
         <<"u", "l", "c", "e", "r", " ", "i", "n", "d", "e", "x", " ", "c", "o", "m", "p", "o", "u", "n", "d", "e", "d">> >> >>

risk_names == module.risk_names

risk_choices_rows ==
    << << <<"m", "v">>,
         <<"M", "V">> >>,
       << <<"m", "a", "d">>,
         <<"M", "A", "D">> >>,
       << <<"g", "m", "d">>,
         <<"G", "M", "D">> >>,
       << <<"m", "s", "v">>,
         <<"M", "S", "V">> >>,
       << <<"v", "a", "r">>,
         <<"V", "a", "R">> >>,
       << <<"c", "v", "a", "r">>,
         <<"C", "V", "a", "R">> >>,
       << <<"t", "g">>,
         <<"T", "G">> >>,
       << <<"e", "v", "a", "r">>,
         <<"E", "V", "a", "R">> >>,
       << <<"r", "g">>,
         <<"R", "G">> >>,
       << <<"c", "v", "r", "g">>,
         <<"C", "V", "R", "G">> >>,
       << <<"t", "g", "r", "g">>,
         <<"T", "G", "R", "G">> >>,
       << <<"w", "r">>,
         <<"W", "R">> >>,
       << <<"f", "l", "p", "m">>,
         <<"F", "L", "P", "M">> >>,
       << <<"s", "l", "p", "m">>,
         <<"S", "L", "P", "M">> >>,
       << <<"m", "d", "d">>,
         <<"M", "D", "D">> >>,
       << <<"a", "d", "d">>,
         <<"A", "D", "D">> >>,
       << <<"d", "a", "r">>,
         <<"D", "a", "R">> >>,
       << <<"c", "d", "a", "r">>,
         <<"C", "D", "a", "R">> >>,
       << <<"e", "d", "a", "r">>,
         <<"E", "D", "a", "R">> >>,
       << <<"u", "c", "i">>,
         <<"U", "C", "I">> >>,
       << <<"m", "d", "d", "_", "r", "e", "l">>,
         <<"M", "D", "D", "_", "R", "e", "l">> >>,
       << <<"a", "d", "d", "_", "r", "e", "l">>,
         <<"A", "D", "D", "_", "R", "e", "l">> >>,
       << <<"d", "a", "r", "_", "r", "e", "l">>,
         <<"D", "a", "R", "_", "R", "e", "l">> >>,
       << <<"c", "d", "a", "r", "_", "r", "e", "l">>,
         <<"C", "D", "a", "R", "_", "R", "e", "l">> >>,
       << <<"e", "d", "a", "r", "_", "r", "e", "l">>,
         <<"E", "D", "a", "R", "_", "R", "e", "l">> >>,
       << <<"u", "c", "i", "_", "r", "e", "l">>,
         <<"U", "C", "I", "_", "R", "e", "l">> >> >>

\* The module's globals as the import leaves them.  The functions read the
\* tables from the module at the time of the call.
Imported ==
    [objectives_choices |-> DictOf(objectives_choices_rows),
     risk_names         |-> DictOf(risk_names_rows),
     risk_choices       |-> DictOf(risk_choices_rows),
     time_factor        |-> (<<"D">> :> 252) @@ (<<"W">> :> 52) @@ (<<"M">> :> 12)]

\* The table with 'mad' given the short code of 'mv'.
risk_choices_shared_code ==
    DictOf(Append(risk_choices_rows, << <<"m", "a", "d">>, <<"M", "V">> >>))

risk_choices == module.risk_choices

time_factor == module.time_factor

----------------------------------------------------------------------------
(* Python values and control flow *)

\* None, and a dict of weights: the (ticker, hundredths) pairs in insertion order.
None == [none |-> TRUE, w |-> <<>>]

Dict(pairs) == [none |-> FALSE, w |-> pairs]

\* No exception pending, or the exception a statement raised and where.
NoExc == [raised |-> FALSE, exc |-> "", at |-> ""]

Raise(e, where) == [raised |-> TRUE, exc |-> e, at |-> where]

\* What a run of statements did: its prints, collaborator calls and plotting
\* calls, in the order they happened, and the exception that ended it, if any.
Did(events, x) == [trace |-> events, exc |-> x]

Event(kind, e) == [kind |-> kind, e |-> e]

Nothing == Did(<<>>, NoExc)

Printed(e) == Did(<<Event("print", e)>>, NoExc)

Called(c) == Did(<<Event("call", c)>>, NoExc)

Drew(c) == Did(<<Event("chart", c)>>, NoExc)

\* A call of one public function of the module by another.
Entered(who, a) == Did(<<Event("enter", [who |-> who, params |-> a])>>, NoExc)

Raised(e, where) == Did(<<>>, Raise(e, where))

\* Statement sequencing: the second run happens only if the first did not raise.
Then(a, b) ==
    IF a.exc.raised THEN a ELSE Did(a.trace \o b.trace, b.exc)

\* d[k] on a dict: a KeyError when k is not a key.
Has(d, k) == k \in DOMAIN d

\* s[-1]
LastChar(s) == s[Len(s)]

Abs(n) == IF n < 0 THEN -n ELSE n

Max(a, b) == IF a >= b THEN a ELSE b

RECURSIVE SumSizes(_)
SumSizes(sizes) ==
    IF sizes = <<>> THEN 0 ELSE Head(sizes) + SumSizes(Tail(sizes))

Keys(pairs) == [i \in 1..Len(pairs) |-> pairs[i][1]]

Values(pairs) == [i \in 1..Len(pairs) |-> pairs[i][2]]

\* math.isclose(s, 1, rel_tol=0.1) on hundredths: |s - 1| <= 0.1 * max(|s|, 1).
IsCloseWide(s) == 10 * Abs(s - 100) <= 2 * Max(Abs(s), 100)

IsCloseToOne(s) == 10 * Abs(s - 100) <= Max(Abs(s), 100)

----------------------------------------------------------------------------
(* str() of a float *)

Digit(d) == <<"0", "1", "2", "3", "4", "5", "6", "7", "8", "9">>[d + 1]

RECURSIVE DigitsOf(_)
DigitsOf(n) ==
    IF n < 10 THEN <<Digit(n)>> ELSE DigitsOf(n \div 10) \o <<Digit(n % 10)>>

\* str(x) for the float x = h / 100: sign, integer part, ".", and the shortest
\* fraction (at least one digit).
FloatStr(h) ==
    LET a == Abs(h)
        frac == IF (a % 100) % 10 = 0
                THEN <<Digit((a % 100) \div 10)>>
                ELSE <<Digit((a % 100) \div 10), Digit(a % 10)>>
    IN  (IF h < 0 THEN <<"-">> ELSE <<>>) \o DigitsOf(a \div 100) \o <<".">> \o frac

\* s.find("."): the 0-based index of the first ".", -1 when there is none.
FindDot(s) ==
    IF \E i \in 1..Len(s) : s[i] = "."
    THEN (CHOOSE i \in 1..Len(s) : s[i] = "." /\ \A j \in 1..(i - 1) : s[j] # ".") - 1
    ELSE -1

\* s[:n]
Prefix(s, n) == SubSeq(s, 1, IF n < Len(s) THEN n ELSE Len(s))

\* lambda s: " " + s[:4] if s.find(".") == 1 else "" + s[:5]
CellText(s) == IF FindDot(s) = 1 THEN <<" ">> \o Prefix(s, 4) ELSE Prefix(s, 5)

----------------------------------------------------------------------------
(* display_weights *)

\* The branch of display_weights that multiplies by 100 and appends " %".
AsPercent(pairs) == IsCloseToOne(SumSizes(Values(pairs)))

PercentRows(pairs) ==
    [i \in 1..Len(pairs) |->
        [index |-> pairs[i][1],
         value |-> CellText(FloatStr(pairs[i][2] * 100)) \o <<" ", "%">>]]

AmountRows(pairs) ==
    [i \in 1..Len(pairs) |->
        [index |-> pairs[i][1],
         value |-> CellText(FloatStr(pairs[i][2])) \o <<" ", "$">>]]

\* The market-neutral branch prints the numbers as they are.
RawRows(pairs) ==
    [i \in 1..Len(pairs) |-> [index |-> pairs[i][1], value |-> pairs[i][2]]]

\* tot_value > 1.01, tot_value the mean of the absolute values.
NeutralIsAmount(pairs) ==
    SumSizes([i \in 1..Len(pairs) |-> Abs(pairs[i][2])]) > 101 * Len(pairs)

Table(header, rows) ==
    [what |-> "table", title |-> "Weights", header |-> header, rows |-> rows]

display_weights(weights, market_neutral) ==
    IF weights.w = <<>> THEN Nothing
    ELSE IF ~market_neutral
         THEN IF AsPercent(weights.w)
              THEN Printed(Table("Value", PercentRows(weights.w)))
              ELSE Printed(Table("Value", AmountRows(weights.w)))
         ELSE IF NeutralIsAmount(weights.w)
              THEN Printed(Table("Value ($)", RawRows(weights.w)))
              ELSE Printed(Table("Value (%)", RawRows(weights.w)))

----------------------------------------------------------------------------
(* d_period *)

extra_choices ==
    DictOf(<< << <<"y", "t", "d">>, <<"[", "Y", "e", "a", "r", "-", "t", "o", "-", "D", "a", "t", "e", "]">> >>,
              << <<"m", "a", "x">>, <<"[", "A", "l", "l", "-", "t", "i", "m", "e", "]">> >> >>)

\* The days date.today() is drawn from: ISO text and weekday() (Monday is 0).
Calendar ==
    << [iso |-> <<"2", "0", "2", "2", "-", "0", "4", "-", "2", "9">>, weekday |-> 4],
       [iso |-> <<"2", "0", "2", "2", "-", "0", "4", "-", "3", "0">>, weekday |-> 5],
       [iso |-> <<"2", "0", "2", "2", "-", "0", "5", "-", "0", "1">>, weekday |-> 6],
       [iso |-> <<"2", "0", "2", "2", "-", "0", "5", "-", "0", "2">>, weekday |-> 0],
       [iso |-> <<"2", "0", "2", "2", "-", "0", "5", "-", "0", "3">>, weekday |-> 1] >>

LastFridayForgotten(day) == day

\* end_ + relativedelta(weekday=FR(-1)): the last Friday on or before the day.
LastFriday(day) ==
    CHOOSE d \in 1..day :
        /\ Calendar[d].weekday = 4
        /\ \A e \in (d + 1)..day : Calendar[e].weekday # 4

\* s[:-n]
ButLast(s, n) == IF Len(s) > n THEN SubSeq(s, 1, Len(s) - n) ELSE <<>>

SingularNever(p) == p

\* if p[1:3] == "1 ": p = p.replace("s", "")
Singular(p) ==
    IF Len(p) >= 3 /\ SubSeq(p, 2, 3) = <<"1", " ">>
    THEN SelectSeq(p, LAMBDA c : c # "s")
    ELSE p

Label(p) == [exc |-> NoExc, p |-> p]

NoLabel(e, where) == [exc |-> Raise(e, where), p |-> <<>>]

d_period_lenient(period, start, end, today) ==
    Label(<<"[">> \o period \o <<"]">>)

d_period(period, start, end, today) ==
    IF start = <<>>
    THEN IF Has(extra_choices, period) THEN Label(Singular(extra_choices[period]))
         ELSE IF period = <<>> THEN NoLabel("IndexError", "period[-1]")
         ELSE IF LastChar(period) = "d"
              THEN Label(Singular(<<"[">> \o ButLast(period, 1) \o <<" ", "D", "a", "y", "s", "]">>))
         ELSE IF LastChar(period) = "w"
              THEN Label(Singular(<<"[">> \o ButLast(period, 1) \o <<" ", "W", "e", "e", "k", "s", "]">>))
         ELSE IF LastChar(period) = "o"
              THEN Label(Singular(<<"[">> \o ButLast(period, 2) \o <<" ", "M", "o", "n", "t", "h", "s", "]">>))
         ELSE IF LastChar(period) = "y"
              THEN Label(Singular(<<"[">> \o ButLast(period, 1) \o <<" ", "Y", "e", "a", "r", "s", "]">>))
         ELSE NoLabel("UnboundLocalError", "p")
    ELSE LET end_ == IF Calendar[today].weekday >= 5 THEN LastFriday(today) ELSE today
             to == IF end = <<>> THEN Calendar[end_].iso ELSE end
         IN  Label(<<"[", "F", "r", "o", "m", " ">> \o start \o <<" ", "t", "o", " ">> \o to \o <<"]">>)

----------------------------------------------------------------------------
(* portfolio_performance *)

\* The defaults alpha=0.05, a_sim=100, beta=None, b_sim=None.
DefaultSignificance == [alpha |-> 5, a_sim |-> 100, beta |-> "None", b_sim |-> "None"]

drawdowns ==
    { <<"M", "D", "D">>, <<"A", "D", "D">>, <<"D", "a", "R">>, <<"C", "D", "a", "R">>, <<"E", "D", "a", "R">>, <<"U", "C", "I">>,
      <<"M", "D", "D", "_", "R", "e", "l">>, <<"A", "D", "D", "_", "R", "e", "l">>, <<"D", "a", "R", "_", "R", "e", "l">>, <<"C", "D", "a", "R", "_", "R", "e", "l">>, <<"E", "D", "a", "R", "_", "R", "e", "l">>, <<"U", "C", "I", "_", "R", "e", "l">> }

\* str.capitalize(): the first character upper-cased, the rest lower-cased.
Capitalize(s) == IF s = <<>> THEN s ELSE <<UpperChar(Head(s))>> \o Lower(Tail(s))

Line(label, text, by) == [what |-> "perf", label |-> label, text |-> text, by |-> by]

BaseLinesSharpeFirst(factor) ==
    Then(Printed(Line("Sharpe ratio", <<>>, 0)),
    Then(Printed(Line("expected return", <<>>, factor)),
         Printed(Line("volatility", <<>>, factor))))

\* The three lines printed for every risk measure.
BaseLines(factor) ==
    Then(Printed(Line("expected return", <<>>, factor)),
    Then(Printed(Line("volatility", <<>>, factor)),
         Printed(Line("Sharpe ratio", <<>>, 0))))

\* The lines printed when risk_measure != "MV": the risk value, then the ratio.
RiskLines(risk_measure, factor) ==
    IF ~Has(risk_names, Lower(risk_measure)) THEN Raised("KeyError", "risk_names")
    ELSE LET name == risk_names[Lower(risk_measure)]
         IN  Then(Printed(IF risk_measure \in drawdowns
                          THEN Line("risk", Capitalize(name), 0)
                          ELSE Line("risk", name, factor)),
                  Printed(Line("Return / risk ratio", name, 0)))

\* stock_returns is the table whose columns are `columns`; its numbers and
\* the scalars computed from them are not followed.  scorer_ok: rp.Sharpe_Risk
\* returned a risk value rather than raising.
portfolio_performance(weights, columns, freq, risk_measure, sig, scorer_ok) ==
    IF Range(Keys(weights.w)) # Range(columns)
    THEN Raised("ValueError", "stock_returns matmul weights")
    ELSE IF ~Has(time_factor, Upper(freq)) THEN Raised("KeyError", "time_factor")
    ELSE Then(BaseLines(time_factor[Upper(freq)]),
              IF risk_measure = <<"M", "V">> THEN Nothing
              ELSE Then(Called([who |-> "rp.Sharpe_Risk",
                                params |-> [rm |-> risk_measure, sig |-> sig],
                                returned |-> IF scorer_ok THEN "risk" ELSE "raised"]),
                        IF ~scorer_ok THEN Raised("Exception", "rp.Sharpe_Risk")
                        ELSE RiskLines(risk_measure, time_factor[Upper(freq)])))

----------------------------------------------------------------------------
(* The display functions *)

Notice == [what |-> "notice", text |-> "There is no solution with this parameters"]

\* s_title: the period label, the fixed text, and the risk-measure name if any.
Title(p, text, name) == [what |-> "title", p |-> p, text |-> text, name |-> name]

Blank == [what |-> "blank", text |-> ""]

\* A collaborator call: its name, the arguments followed, and what it returned.
Call(who, params, returned) == [who |-> who, params |-> params, returned |-> returned]

\* What a function did and the value it returned (None when it raised).
Run(did, value) == [did |-> did, value |-> IF did.exc.raised THEN None ELSE value]

\* weights = general(...); return weights -- the call of the general function
\* by a convenience wrapper.
Delegated(who, a, run) == Run(Then(Entered(who, a), run.did), run.value)

\* The record a with field k set to v.
With(a, k, v) == [f \in DOMAIN a \cup {k} |-> IF f = k THEN v ELSE a[f]]

ReportTableFirst(title, reply, risk_measure, freq, sig) ==
    Then(display_weights(reply.weights, FALSE),
    Then(Printed(title),
    Then(portfolio_performance(reply.weights, reply.columns, freq, risk_measure,
                               sig, TRUE),
         Printed(Blank))))

\* console.print(s_title); display_weights(weights); portfolio_performance(...);
\* console.print("")
Report(title, reply, risk_measure, freq, sig) ==
    Then(Printed(title),
    Then(display_weights(reply.weights, FALSE),
    Then(portfolio_performance(reply.weights, reply.columns, freq, risk_measure,
                               sig, TRUE),
         Printed(Blank))))

NoSolutionOrReportScaled(call, title, reply, risk_measure, freq, sig) ==
    IF reply.weights.none
    THEN Run(Then(Called(call), Printed(Notice)), None)
    ELSE Run(Then(Called(call), Report(title, reply, risk_measure, freq, sig)),
             Dict([i \in 1..Len(reply.weights.w) |->
                      <<reply.weights.w[i][1], 100 * reply.weights.w[i][2]>>]))

\* if weights is None: console.print(notice); return -- else the report.
NoSolutionOrReport(call, title, reply, risk_measure, freq, sig) ==
    IF reply.weights.none
    THEN Run(Then(Called(call), Printed(Notice)), None)
    ELSE Run(Then(Called(call), Report(title, reply, risk_measure, freq, sig)),
             reply.weights)

ReportAlways(call, title, reply, risk_measure, freq, sig) ==
    Run(Then(Called(call), Report(title, reply, risk_measure, freq, sig)),
        reply.weights)

\* The builders' results are reported without a None check, and the risk
\* measure is translated only after the title and the table are printed.
BuilderReport(call, title, a, reply) ==
    Run(Then(Called(call),
        Then(Printed(title),
        Then(display_weights(reply.weights, FALSE),
        Then(IF Has(risk_choices, a.risk_measure)
             THEN portfolio_performance(reply.weights, reply.columns, a.freq,
                                        risk_choices[a.risk_measure],
                                        DefaultSignificance, TRUE)
             ELSE Raised("KeyError", "risk_choices"),
             Printed(Blank))))), reply.weights)

\* optimizer_model.get_equal_weights, which is not part of this file: every
\* one of the n requested tickers gets value / n, in the order of the request.
get_equal_weights(stocks, value) ==
    Dict([i \in 1..Len(stocks) |-> <<stocks[i], value \div Len(stocks)>>])

display_equal_weight_returning_nothing(a, reply) ==
    LET dp == d_period(a.period, a.start, a.end, a.today)
        run == BuilderReport(Call("optimizer_model.get_equal_weights",
                                  [stocks |-> a.stocks, value |-> a.value], reply.weights),
                             Title(dp.p, "Equally Weighted Portfolio", <<>>), a, reply)
    IN  IF dp.exc.raised THEN Run(Did(<<>>, dp.exc), None)
        ELSE Run(run.did, None)

display_equal_weight(a, reply) ==
    LET dp == d_period(a.period, a.start, a.end, a.today)
    IN  IF dp.exc.raised THEN Run(Did(<<>>, dp.exc), None)
        ELSE BuilderReport(Call("optimizer_model.get_equal_weights",
                                [stocks |-> a.stocks, value |-> a.value], reply.weights),
                           Title(dp.p, "Equally Weighted Portfolio", <<>>), a, reply)

display_property_weighting(a, reply) ==
    LET dp == d_period(a.period, a.start, a.end, a.today)
    IN  IF dp.exc.raised THEN Run(Did(<<>>, dp.exc), None)
        ELSE BuilderReport(Call("optimizer_model.get_property_weights", <<>>, reply.weights),
                           Title(dp.p, "Weighted Portfolio based on marketCap", <<>>),
                           a, reply)

\* The objectives display_mean_risk has a title for.
TitledObjectives == {<<"s", "h", "a", "r", "p", "e">>, <<"m", "i", "n", "r", "i", "s", "k">>, <<"m", "a", "x", "r", "e", "t">>, <<"u", "t", "i", "l", "i", "t", "y">>}

MeanRiskTitle(objective) ==
    CASE objective = <<"s", "h", "a", "r", "p", "e">> -> "Maximal return/risk ratio portfolio using"
      [] objective = <<"m", "i", "n", "r", "i", "s", "k">> -> "Minimum risk portfolio using"
      [] objective = <<"m", "a", "x", "r", "e", "t">> -> "Maximal return portfolio using"
      [] objective = <<"u", "t", "i", "l", "i", "t", "y">> -> "Maximal risk averse utility function portfolio using"

display_mean_risk_unchecked(a, reply) ==
    LET dp == d_period(a.period, a.start, a.end, a.today)
    IN  IF dp.exc.raised THEN Run(Did(<<>>, dp.exc), None)
        ELSE IF a.objective \notin TitledObjectives
             THEN Run(Raised("UnboundLocalError", "s_title"), None)
        ELSE IF ~Has(risk_names, a.risk_measure)
             THEN Run(Raised("KeyError", "risk_names"), None)
        ELSE IF ~Has(risk_choices, a.risk_measure)
             THEN Run(Raised("KeyError", "risk_choices"), None)
        ELSE IF ~Has(objectives_choices, a.objective)
             THEN Run(Raised("KeyError", "objectives_choices"), None)
        ELSE ReportAlways(
                 Call("optimizer_model.get_mean_risk_portfolio",
                      [risk_measure |-> risk_choices[a.risk_measure],
                       objective |-> objectives_choices[a.objective]], reply.weights),
                 Title(dp.p, MeanRiskTitle(a.objective), risk_names[a.risk_measure]),
                 reply, risk_choices[a.risk_measure], a.freq, DefaultSignificance)

display_mean_risk(a, reply) ==
    LET dp == d_period(a.period, a.start, a.end, a.today)
    IN  IF dp.exc.raised THEN Run(Did(<<>>, dp.exc), None)
        ELSE IF a.objective \notin TitledObjectives
             THEN Run(Raised("UnboundLocalError", "s_title"), None)
        ELSE IF ~Has(risk_names, a.risk_measure)
             THEN Run(Raised("KeyError", "risk_names"), None)
        ELSE IF ~Has(risk_choices, a.risk_measure)
             THEN Run(Raised("KeyError", "risk_choices"), None)
        ELSE IF ~Has(objectives_choices, a.objective)
             THEN Run(Raised("KeyError", "objectives_choices"), None)
        ELSE NoSolutionOrReport(
                 Call("optimizer_model.get_mean_risk_portfolio",
                      [risk_measure |-> risk_choices[a.risk_measure],
                       objective |-> objectives_choices[a.objective]], reply.weights),
                 Title(dp.p, MeanRiskTitle(a.objective), risk_names[a.risk_measure]),
                 reply, risk_choices[a.risk_measure], a.freq, DefaultSignificance)

display_max_sharpe(a, reply) ==
    LET general == With(a, "objective", <<"s", "h", "a", "r", "p", "e">>)
    IN  Delegated("display_mean_risk", general, display_mean_risk(general, reply))

display_min_risk(a, reply) ==
    LET general == With(a, "objective", <<"m", "i", "n", "r", "i", "s", "k">>)
    IN  Delegated("display_mean_risk", general, display_mean_risk(general, reply))

display_max_util_as_max_sharpe(a, reply) ==
    LET general == With(a, "objective", <<"s", "h", "a", "r", "p", "e">>)
    IN  Delegated("display_mean_risk", general, display_mean_risk(general, reply))

display_max_util(a, reply) ==
    LET general == With(a, "objective", <<"u", "t", "i", "l", "i", "t", "y">>)
    IN  Delegated("display_mean_risk", general, display_mean_risk(general, reply))

display_max_ret(a, reply) ==
    LET general == With(a, "objective", <<"m", "a", "x", "r", "e", "t">>)
    IN  Delegated("display_mean_risk", general, display_mean_risk(general, reply))

display_max_div(a, reply) ==
    LET dp == d_period(a.period, a.start, a.end, a.today)
    IN  IF dp.exc.raised THEN Run(Did(<<>>, dp.exc), None)
        ELSE NoSolutionOrReport(
                 Call("optimizer_model.get_max_diversification_portfolio", <<>>, reply.weights),
                 Title(dp.p, "Display a maximal diversification portfolio", <<>>),
                 reply, <<"M", "V">>, a.freq, DefaultSignificance)

display_max_decorr(a, reply) ==
    LET dp == d_period(a.period, a.start, a.end, a.today)
    IN  IF dp.exc.raised THEN Run(Did(<<>>, dp.exc), None)
        ELSE NoSolutionOrReport(
                 Call("optimizer_model.get_max_decorrelation_portfolio", <<>>, reply.weights),
                 Title(dp.p, "Display a maximal decorrelation portfolio", <<>>),
                 reply, <<"M", "V">>, a.freq, DefaultSignificance)

display_risk_parity_passing_alpha(a, reply) ==
    LET dp == d_period(a.period, a.start, a.end, a.today)
    IN  IF dp.exc.raised THEN Run(Did(<<>>, dp.exc), None)
        ELSE IF ~Has(risk_names, a.risk_measure)
             THEN Run(Raised("KeyError", "risk_names"), None)
        ELSE IF ~Has(risk_choices, a.risk_measure)
             THEN Run(Raised("KeyError", "risk_choices"), None)
        ELSE NoSolutionOrReport(
                 Call("optimizer_model.get_risk_parity_portfolio",
                      [risk_measure |-> risk_choices[a.risk_measure]], reply.weights),
                 Title(dp.p, "Risk parity portfolio based on risk budgeting approach",
                       risk_names[a.risk_measure]),
                 reply, risk_choices[a.risk_measure], a.freq,
                 [DefaultSignificance EXCEPT !.alpha = a.alpha])

display_risk_parity(a, reply) ==
    LET dp == d_period(a.period, a.start, a.end, a.today)
    IN  IF dp.exc.raised THEN Run(Did(<<>>, dp.exc), None)
        ELSE IF ~Has(risk_names, a.risk_measure)
             THEN Run(Raised("KeyError", "risk_names"), None)
        ELSE IF ~Has(risk_choices, a.risk_measure)
             THEN Run(Raised("KeyError", "risk_choices"), None)
        ELSE NoSolutionOrReport(
                 Call("optimizer_model.get_risk_parity_portfolio",
                      [risk_measure |-> risk_choices[a.risk_measure]], reply.weights),
                 Title(dp.p, "Risk parity portfolio based on risk budgeting approach",
                       risk_names[a.risk_measure]),
                 reply, risk_choices[a.risk_measure], a.freq, DefaultSignificance)

display_rel_risk_parity(a, reply) ==
    LET dp == d_period(a.period, a.start, a.end, a.today)
    IN  IF dp.exc.raised THEN Run(Did(<<>>, dp.exc), None)
        ELSE NoSolutionOrReport(
                 Call("optimizer_model.get_rel_risk_parity_portfolio",
                      [version |-> Upper(a.version)], reply.weights),
                 Title(dp.p, "Relaxed risk parity portfolio based on least squares approach",
                       <<>>),
                 reply, risk_choices[<<"m", "v">>], a.freq, DefaultSignificance)

\* The models display_hcp has a title for.
TitledModels == {"HRP", "HERC", "NCO"}

HcpTitle(model) ==
    CASE model = "HRP" -> "Hierarchical risk parity portfolio"
      [] model = "HERC" -> "Hierarchical equal risk contribution portfolio"
      [] model = "NCO" -> "Nested clustered optimization"

display_hcp(a, reply) ==
    LET dp == d_period(a.period, a.start, a.end, a.today)
    IN  IF dp.exc.raised THEN Run(Did(<<>>, dp.exc), None)
        ELSE IF a.model \notin TitledModels
             THEN Run(Raised("UnboundLocalError", "s_title"), None)
        ELSE IF ~Has(risk_names, a.risk_measure)
             THEN Run(Raised("KeyError", "risk_names"), None)
        ELSE IF ~Has(objectives_choices, a.objective)
             THEN Run(Raised("KeyError", "objectives_choices"), None)
        ELSE IF ~Has(risk_choices, a.risk_measure)
             THEN Run(Raised("KeyError", "risk_choices"), None)
        ELSE NoSolutionOrReport(
                 Call("optimizer_model.get_hcp_portfolio",
                      [model |-> a.model,
                       objective |-> objectives_choices[a.objective],
                       risk_measure |-> risk_choices[a.risk_measure]], reply.weights),
                 Title(dp.p, HcpTitle(a.model), risk_names[a.risk_measure]),
                 reply, risk_choices[a.risk_measure], a.freq,
                 [alpha |-> a.alpha, a_sim |-> 100, beta |-> "None", b_sim |-> "None"])

\* display_hrp and display_herc leave the objective at display_hcp's default.
display_hrp(a, reply) ==
    LET general == With(With(a, "model", "HRP"), "objective", <<"m", "i", "n", "r", "i", "s", "k">>)
    IN  Delegated("display_hcp", general, display_hcp(general, reply))

display_herc(a, reply) ==
    LET general == With(With(a, "model", "HERC"), "objective", <<"m", "i", "n", "r", "i", "s", "k">>)
    IN  Delegated("display_hcp", general, display_hcp(general, reply))

display_nco(a, reply) ==
    LET general == With(a, "model", "NCO")
    IN  Delegated("display_hcp", general, display_hcp(general, reply))

----------------------------------------------------------------------------
(* display_ef *)

\* The measures whose risk is not annualised on the frontier plot.
FrontierChart(a, weights) ==
    [what |-> "rp.plot_frontier",
     ax |-> IF a.external_axes = "None" THEN "own" ELSE "external_axes[0]",
     rm |-> risk_choices[a.risk_measure],
     w |-> weights]

\* if tangency: the capital allocation line, which needs the tangency weights.
TangencyLine(a, weights) ==
    IF ~a.tangency THEN Nothing
    ELSE IF weights.none THEN Raised("Exception", "mu matmul weights")
    ELSE Then(Called(Call("rp.Sharpe_Risk",
                          [rm |-> risk_choices[a.risk_measure],
                           sig |-> [alpha |-> a.alpha]], "risk")),
              Drew([what |-> "Capital Allocation Line"]))

\* weights is what port.optimization returned; it is used as it is.
display_ef(a, weights) ==
    Run(Then(Called(Call("yahoo_finance_model.process_stocks", <<>>, "prices")),
        Then(Called(Call("yahoo_finance_model.process_returns", <<>>, "returns")),
        IF ~Has(time_factor, Upper(a.freq)) THEN Raised("KeyError", "time_factor")
        ELSE IF ~Has(risk_choices, a.risk_measure) THEN Raised("KeyError", "risk_choices")
        ELSE
        Then(Called(Call("port.optimization",
                         [rm |-> risk_choices[a.risk_measure], obj |-> "Sharpe"],
                         weights)),
        Then(Called(Call("port.efficient_frontier",
                         [rm |-> risk_choices[a.risk_measure]], "frontier")),
        Then(Called(Call("optimizer_model.generate_random_portfolios", <<>>, "weights")),
        Then(Called(Call("rp.Sharpe_Risk",
                         [rm |-> risk_choices[a.risk_measure],
                          sig |-> [alpha |-> a.alpha]], "risk")),
        Then(IF a.external_axes = "None" THEN Drew([what |-> "subplots"]) ELSE Nothing,
        Then(Drew(FrontierChart(a, weights)),
        Then(TangencyLine(a, weights),
             IF a.external_axes = "None"
             THEN Drew([what |-> "visualize_output"]) ELSE Nothing))))))))), None)

----------------------------------------------------------------------------
(* pie_chart_weights *)

\* f"{x:.2f}" for x = num / den >= 0: x rounded to hundredths.
Fmt2(num, den) ==
    LET q == (200 * num + den) \div (2 * den)
    IN  DigitsOf(q \div 100) \o <<".", Digit((q % 100) \div 10), Digit(q % 10)>>

\* The autopct callback: the percentage x = num / den of a slice, as its label.
my_autopct_from_five(x) ==
    IF x.num > 5 * x.den THEN Fmt2(x.num, x.den) \o <<" ", "%">> ELSE <<>>

my_autopct(x) ==
    IF x.num > 4 * x.den THEN Fmt2(x.num, x.den) \o <<" ", "%">> ELSE <<>>

\* for stock, size in zip(init_stocks, init_sizes): if size > 0: append
KeepAll(pairs) == pairs

Positive(pairs) == SelectSeq(pairs, LAMBDA pr : pr[2] > 0)

\* The label of slice i in the branch taken for amounts.
AmountLabel(sizes, i, total_size) ==
    IF 100 * sizes[i] > 5 * total_size THEN Fmt2(sizes[i], 100) ELSE <<>>

\* ax.pie(..., normalize=True): one wedge per size, labelled by autopct.
Slices(kept, total_size) ==
    LET sizes == Values(kept)
    IN  [i \in 1..Len(kept) |->
            [stock |-> kept[i][1],
             size  |-> sizes[i],
             label |-> IF IsCloseToOne(SumSizes(sizes))
                       THEN my_autopct([num |-> 100 * sizes[i], den |-> total_size])
                       ELSE AmountLabel(sizes, i, total_size)]]

\* f"{' ' if ((100*s/total_size) < 10) else ''}{100*s/total_size:.2f}%"
LegendPercent(s, total_size) ==
    (IF 100 * s < 10 * total_size THEN <<" ">> ELSE <<>>)
        \o Fmt2(100 * s, total_size) \o <<"%">>

PieChart(kept, total_size, ax, title_opt) ==
    [what    |-> "pie",
     ax      |-> ax,
     slices  |-> Slices(kept, total_size),
     tickers |-> Keys(kept),
     shares  |-> [i \in 1..Len(kept) |-> LegendPercent(kept[i][2], total_size)],
     title   |-> <<"Portfolio - ", title_opt, "\nPortfolio Composition">>]

\* external_axes is None, or a list whose first element is drawn on.
pie_chart_weights(weights, title_opt, external_axes) ==
    IF weights.w = <<>> THEN Nothing
    ELSE LET kept == Positive(weights.w)
             total_size == SumSizes(Values(kept))
         IN  IF external_axes = "None"
             THEN Then(Drew([what |-> "subplots"]),
                  Then(Drew(PieChart(kept, total_size, "own", title_opt)),
                       Drew([what |-> "visualize_output"])))
             ELSE Drew(PieChart(kept, total_size, "external_axes[0]", title_opt))

----------------------------------------------------------------------------
(* additional_plots *)

\* ax: the figure the function creates, or the caller's first axes.
AxOf(external_axes) == IF external_axes = "None" THEN "own" ELSE "external_axes[0]"

\* if external_axes is None: plt.subplots(...)
OwnFigure(external_axes) ==
    IF external_axes = "None" THEN Drew([what |-> "subplots"]) ELSE Nothing

\* if external_axes is None: theme.visualize_output()
Shown(external_axes) ==
    IF external_axes = "None" THEN Drew([what |-> "visualize_output"]) ELSE Nothing

Plot(what, external_axes, title_opt) ==
    Drew([what |-> what, ax |-> AxOf(external_axes), title |-> <<"Portfolio - ", title_opt>>])

\* The risk contribution chart translates the risk measure and the frequency
\* after the figure is created.
RiskContribution(a) ==
    Then(OwnFigure(a.external_axes),
         IF ~Has(risk_choices, a.risk_measure) THEN Raised("KeyError", "risk_choices")
         ELSE IF ~Has(time_factor, Upper(a.freq)) THEN Raised("KeyError", "time_factor")
         ELSE Then(Plot("rp.plot_risk_con", a.external_axes, a.title_opt),
                   Shown(a.external_axes)))

Chart(what, a) ==
    Then(OwnFigure(a.external_axes),
    Then(Plot(what, a.external_axes, a.title_opt),
         Shown(a.external_axes)))

additional_plots(a) ==
    Then(IF a.pie THEN pie_chart_weights(a.weights, a.title_opt, a.external_axes) ELSE Nothing,
    Then(IF a.hist THEN Chart("rp.plot_hist", a) ELSE Nothing,
    Then(IF a.dd THEN Chart("rp.plot_drawdown", a) ELSE Nothing,
    Then(IF a.rc_chart THEN RiskContribution(a) ELSE Nothing,
         IF a.heat THEN Chart("rp.plot_clusters", a) ELSE Nothing))))

----------------------------------------------------------------------------
(* Inputs *)

\* The tickers a weight mapping is keyed by, in insertion order.
TickerNames == <<"AAPL", "MSFT", "TSLA", "XOM", "GE">>

\* Most assets in a weight mapping given to display_weights or pie_chart_weights.
MaxAssets == 3

\* Weights and amounts, in hundredths.
WeightValues == {-50, 0, 4, 5, 9, 45, 50, 96, 191}

PairsOf(f) == [i \in DOMAIN f |-> <<TickerNames[i], f[i]>>]

WeightMaps ==
    {PairsOf(f) : f \in UNION {[1..n -> WeightValues] : n \in 0..MaxAssets}}

WeightInputs == {None} \cup {Dict(m) : m \in WeightMaps}

\* The requested tickers: lists of 1, 2, 4 and 5 of them, so that value / n
\* is a whole number of hundredths.
StockLists == {SubSeq(TickerNames, 1, n) : n \in {1, 2, 4, 5}}

\* value, the amount to allocate, in hundredths.
ValueInputs == {100, 200}

AxesInputs == {"None", "axes"}

\* Every key of the tables, a function's declared default 'MV', and a name
\* that is in no table.
RiskMeasureInputs == DOMAIN risk_choices \cup DOMAIN risk_names \cup {<<"M", "V">>, <<"x", "x">>}

\* The objective values display_nco documents.
DocumentedNcoObjectives == {<<"M", "i", "n", "R", "i", "s", "k">>, <<"U", "t", "i", "l", "i", "t", "y">>, <<"S", "h", "a", "r", "p", "e">>, <<"E", "R", "C">>}

\* Every key of objectives_choices, display_nco's declared default and its
\* other documented values, and a name that is in no table.
ObjectiveInputs == DOMAIN objectives_choices \cup DocumentedNcoObjectives \cup {<<"x", "x">>}

ModelInputs == {"HRP", "HERC", "NCO", "xx"}

\* 'D', a lower-case 'w', a letter that is no frequency, and a number of days.
FreqInputs == {<<"D">>, <<"w">>, <<"Q">>, <<"5">>}

AlphaInputs == {1, 5}

VersionInputs == {<<"a">>, <<"B">>}

\* period, start, end and the day date.today() gives.
PeriodCases ==
    { [period |-> <<"3", "y">>, start |-> <<>>, end |-> <<>>, today |-> 1],
      [period |-> <<>>, start |-> <<>>, end |-> <<>>, today |-> 1],
      [period |-> <<"5", "x">>, start |-> <<>>, end |-> <<>>, today |-> 1],
      [period |-> <<"3", "y">>, start |-> <<"2", "0", "2", "2", "-", "0", "1", "-", "0", "3">>, end |-> <<>>, today |-> 2] }

CommonArgs ==
    { [period |-> c.period, start |-> c.start, end |-> c.end, today |-> c.today,
       freq |-> f, alpha |-> al] :
          c \in PeriodCases, f \in FreqInputs, al \in AlphaInputs }

\* What an optimizer or a builder returns: the weights (None: no solution)
\* and the return table, whose columns are the requested tickers.
Solutions ==
    { Dict(<< <<"AAPL", 50>>, <<"MSFT", 50>> >>),
      Dict(<< <<"AAPL", 191>>, <<"MSFT", 9>> >>),
      Dict(<<>>) }

SolverReplies ==
    { [weights |-> w, columns |-> <<"AAPL", "MSFT">>] : w \in Solutions \cup {None} }

BuilderReplies == { [weights |-> w, columns |-> <<"AAPL", "MSFT">>] : w \in Solutions }

PeriodInputs == {<<>>, <<"y", "t", "d">>, <<"m", "a", "x">>, <<"1", "d">>, <<"3", "d">>, <<"1", "1", "d">>, <<"1", "w">>, <<"1", "0", "w">>, <<"1", "m", "o">>, <<"6", "m", "o">>, <<"1", "y">>, <<"3", "y">>, <<"5", "x">>}

DateInputs == {<<>>, <<"2", "0", "2", "2", "-", "0", "1", "-", "0", "3">>}

\* The short codes, a code in the wrong case and a code that is in no table.
CodeInputs == Range(Values(risk_choices_rows)) \cup {<<"m", "v">>, <<"X", "X">>}

----------------------------------------------------------------------------
(* The invocations *)

\* The prints, the collaborator calls and the plotting calls of the invocation.
OfKind(kind) ==
    LET s == SelectSeq(trace, LAMBDA ev : ev.kind = kind)
    IN  [i \in 1..Len(s) |-> s[i].e]

console == OfKind("print")

calls == OfKind("call")

charts == OfKind("chart")

Idle == fn = "idle"

\* How an invocation ended: the value it returned, or the exception it raised.
Outcome(run) ==
    IF run.did.exc.raised
    THEN [kind |-> "raise", exc |-> run.did.exc.exc, at |-> run.did.exc.at, value |-> None]
    ELSE [kind |-> "return", exc |-> "", at |-> "", value |-> run.value]

InvokeForgettingFrequencies(name, a, run) ==
    /\ fn' = name
    /\ args' = a
    /\ trace' = run.did.trace
    /\ result' = Outcome(run)
    /\ module' = [module EXCEPT !.time_factor = <<>>]

Invoke(name, a, run) ==
    /\ fn' = name
    /\ args' = a
    /\ trace' = run.did.trace
    /\ result' = Outcome(run)
    /\ module' = module

Init ==
    /\ fn = "idle"
    /\ args = <<>>
    /\ trace = <<>>
    /\ result = Outcome(Run(Nothing, None))
    /\ module = Imported

D_Period ==
    /\ Idle
    /\ \E period \in PeriodInputs, start \in DateInputs, end \in DateInputs,
           today \in 1..Len(Calendar) :
            LET dp == d_period(period, start, end, today)
            IN  Invoke("d_period",
                       [period |-> period, start |-> start, end |-> end, today |-> today],
                       Run(Did(<<>>, dp.exc), dp.p))

PortfolioPerformance ==
    /\ Idle
    /\ \E weights \in Solutions, freq \in FreqInputs, risk_measure \in CodeInputs,
           scorer_ok \in BOOLEAN :
            /\ risk_measure \in Range(Values(risk_choices_rows)) => scorer_ok
            /\ Invoke("portfolio_performance",
                      [weights |-> weights, freq |-> freq, risk_measure |-> risk_measure,
                       scorer_ok |-> scorer_ok],
                      Run(portfolio_performance(weights, <<"AAPL", "MSFT">>, freq,
                                                risk_measure, DefaultSignificance,
                                                scorer_ok), None))

DisplayWeights ==
    /\ Idle
    /\ \E weights \in WeightInputs, market_neutral \in BOOLEAN :
            Invoke("display_weights",
                   [weights |-> weights, market_neutral |-> market_neutral],
                   Run(display_weights(weights, market_neutral), None))

DisplayEqualWeight ==
    /\ Idle
    /\ \E c \in CommonArgs, rm \in RiskMeasureInputs, stocks \in StockLists,
           value \in ValueInputs :
         \E reply \in BuilderReplies \cup
                      {[weights |-> get_equal_weights(stocks, value), columns |-> stocks]} :
            LET a == With(With(With(c, "risk_measure", rm), "stocks", stocks),
                          "value", value)
            IN  Invoke("display_equal_weight", a, display_equal_weight(a, reply))

DisplayPropertyWeighting ==
    /\ Idle
    /\ \E c \in CommonArgs, rm \in RiskMeasureInputs, reply \in BuilderReplies :
            LET a == With(c, "risk_measure", rm)
            IN  Invoke("display_property_weighting", a, display_property_weighting(a, reply))

DisplayMeanRisk ==
    /\ Idle
    /\ \E c \in CommonArgs, rm \in RiskMeasureInputs, obj \in ObjectiveInputs,
           reply \in SolverReplies :
            LET a == With(With(c, "risk_measure", rm), "objective", obj)
            IN  Invoke("display_mean_risk", a, display_mean_risk(a, reply))

DisplayMaxSharpe ==
    /\ Idle
    /\ \E c \in CommonArgs, rm \in RiskMeasureInputs, reply \in SolverReplies :
            LET a == With(c, "risk_measure", rm)
            IN  Invoke("display_max_sharpe", a, display_max_sharpe(a, reply))

DisplayMinRisk ==
    /\ Idle
    /\ \E c \in CommonArgs, rm \in RiskMeasureInputs, reply \in SolverReplies :
            LET a == With(c, "risk_measure", rm)
            IN  Invoke("display_min_risk", a, display_min_risk(a, reply))

DisplayMaxUtil ==
    /\ Idle
    /\ \E c \in CommonArgs, rm \in RiskMeasureInputs, reply \in SolverReplies :
            LET a == With(c, "risk_measure", rm)
            IN  Invoke("display_max_util", a, display_max_util(a, reply))

DisplayMaxRet ==
    /\ Idle
    /\ \E c \in CommonArgs, rm \in RiskMeasureInputs, reply \in SolverReplies :
            LET a == With(c, "risk_measure", rm)
            IN  Invoke("display_max_ret", a, display_max_ret(a, reply))

DisplayMaxDiv ==
    /\ Idle
    /\ \E c \in CommonArgs, reply \in SolverReplies :
            Invoke("display_max_div", c, display_max_div(c, reply))

DisplayMaxDecorr ==
    /\ Idle
    /\ \E c \in CommonArgs, reply \in SolverReplies :
            Invoke("display_max_decorr", c, display_max_decorr(c, reply))

DisplayEf ==
    /\ Idle
    /\ \E c \in CommonArgs, rm \in RiskMeasureInputs, tangency \in BOOLEAN,
           external_axes \in AxesInputs, weights \in {None, Dict(<< <<"AAPL", 50>>, <<"MSFT", 50>> >>)} :
            LET a == With(With(With(c, "risk_measure", rm), "tangency", tangency),
                          "external_axes", external_axes)
            IN  Invoke("display_ef", a, display_ef(a, weights))

DisplayRiskParity ==
    /\ Idle
    /\ \E c \in CommonArgs, rm \in RiskMeasureInputs, reply \in SolverReplies :
            LET a == With(c, "risk_measure", rm)
            IN  Invoke("display_risk_parity", a, display_risk_parity(a, reply))

DisplayRelRiskParity ==
    /\ Idle
    /\ \E c \in CommonArgs, version \in VersionInputs, reply \in SolverReplies :
            LET a == With(c, "version", version)
            IN  Invoke("display_rel_risk_parity", a, display_rel_risk_parity(a, reply))

DisplayHcp ==
    /\ Idle
    /\ \E c \in CommonArgs, model \in ModelInputs, rm \in RiskMeasureInputs,
           obj \in ObjectiveInputs, reply \in SolverReplies :
            LET a == With(With(With(c, "risk_measure", rm), "objective", obj), "model", model)
            IN  Invoke("display_hcp", a, display_hcp(a, reply))

DisplayHrp ==
    /\ Idle
    /\ \E c \in CommonArgs, rm \in RiskMeasureInputs, reply \in SolverReplies :
            LET a == With(c, "risk_measure", rm)
            IN  Invoke("display_hrp", a, display_hrp(a, reply))

DisplayHerc ==
    /\ Idle
    /\ \E c \in CommonArgs, rm \in RiskMeasureInputs, reply \in SolverReplies :
            LET a == With(c, "risk_measure", rm)
            IN  Invoke("display_herc", a, display_herc(a, reply))

DisplayNco ==
    /\ Idle
    /\ \E c \in CommonArgs, rm \in RiskMeasureInputs, obj \in ObjectiveInputs,
           reply \in SolverReplies :
            LET a == With(With(c, "risk_measure", rm), "objective", obj)
            IN  Invoke("display_nco", a, display_nco(a, reply))

PieChartWeights ==
    /\ Idle
    /\ \E weights \in WeightInputs, external_axes \in AxesInputs :
            Invoke("pie_chart_weights",
                   [weights |-> weights, title_opt |-> "title", external_axes |-> external_axes],
                   Run(pie_chart_weights(weights, "title", external_axes), None))

\* The weights are a portfolio already computed, so neither None nor empty.
AdditionalPlots ==
    /\ Idle
    /\ \E weights \in Solutions \ {Dict(<<>>)}, freq \in FreqInputs,
           risk_measure \in RiskMeasureInputs, external_axes \in AxesInputs,
           pie \in BOOLEAN, hist \in BOOLEAN, dd \in BOOLEAN, rc_chart \in BOOLEAN,
           heat \in BOOLEAN :
            LET a == [weights |-> weights, title_opt |-> "title", freq |-> freq,
                      risk_measure |-> risk_measure, external_axes |-> external_axes,
                      pie |-> pie, hist |-> hist, dd |-> dd, rc_chart |-> rc_chart,
                      heat |-> heat]
            IN  Invoke("additional_plots", a, Run(additional_plots(a), None))

\* The caller goes on to its next command.
NextCommand ==
    /\ ~Idle
    /\ fn' = "idle"
    /\ args' = <<>>
    /\ trace' = <<>>
    /\ result' = Outcome(Run(Nothing, None))
    /\ module' = module

Next ==
    \/ D_Period
    \/ PortfolioPerformance
    \/ DisplayWeights
    \/ DisplayEqualWeight
    \/ DisplayPropertyWeighting
    \/ DisplayMeanRisk
    \/ DisplayMaxSharpe
    \/ DisplayMinRisk
    \/ DisplayMaxUtil
    \/ DisplayMaxRet
    \/ DisplayMaxDiv
    \/ DisplayMaxDecorr
    \/ DisplayEf
    \/ DisplayRiskParity
    \/ DisplayRelRiskParity
    \/ DisplayHcp
    \/ DisplayHrp
    \/ DisplayHerc
    \/ DisplayNco
    \/ PieChartWeights
    \/ AdditionalPlots
    \/ NextCommand

Spec == Init /\ [][Next]_vars

----------------------------------------------------------------------------
(* Claims *)



\* The weights table shows percentages: the " %" suffix on every value, or the
\* "Value (%)" header of the market-neutral branch.
ShowsPercent(t) ==
    \/ t.header = "Value (%)"
    \/ t.header = "Value" /\ \A i \in 1..Len(t.rows) : LastChar(t.rows[i].value) = "%"

ShowsAmount(t) ==
    \/ t.header = "Value ($)"
    \/ t.header = "Value" /\ \A i \in 1..Len(t.rows) : LastChar(t.rows[i].value) = "$"

\* The sum, in hundredths, is 1 within 10% relative tolerance.
SumsToAboutOne(pairs) == SumSizes(Values(pairs)) \in 90..111

WeightsShown ==
    /\ fn = "display_weights"
    /\ args.weights.w # <<>>

\* C4 as stated: for every non-empty mapping, market-neutral or not, the table
\* shows percentages exactly when the weights sum to 1 within 10%, and amounts
\* otherwise.
C4_Original ==
    WeightsShown =>
        /\ Len(console) = 1
        /\ ShowsPercent(console[1]) <=> SumsToAboutOne(args.weights.w)
        /\ ShowsAmount(console[1]) <=> ~SumsToAboutOne(args.weights.w)

\* C4 amended: outside market-neutral mode the table shows percentages exactly
\* when the weights sum to 1 within 10%, and amounts otherwise; in
\* market-neutral mode the values are printed as they are and the header is
\* "Value ($)" exactly when the mean absolute value exceeds 1.01, and
\* "Value (%)" otherwise.
C4_Amended ==
    WeightsShown =>
        /\ Len(console) = 1
        /\ console[1].what = "table"
        /\ ~args.market_neutral =>
              /\ ShowsPercent(console[1]) <=> SumsToAboutOne(args.weights.w)
              /\ ShowsAmount(console[1]) <=> ~SumsToAboutOne(args.weights.w)
        /\ args.market_neutral =>
              /\ console[1].rows = RawRows(args.weights.w)
              /\ console[1].header =
                    IF SumSizes([i \in 1..Len(args.weights.w) |->
                                    Abs(args.weights.w[i][2])])
                           > 101 * Len(args.weights.w)
                    THEN "Value ($)" ELSE "Value (%)"

\* A mapping summing to 1.11 is shown in percent, outside market-neutral mode.
C4_Witness ==
    /\ WeightsShown
    /\ ~args.market_neutral
    /\ SumSizes(Values(args.weights.w)) = 105
    /\ ShowsPercent(console[1])

PieDrawn ==
    /\ fn = "pie_chart_weights"
    /\ args.weights.w # <<>>

\* The pie chart among the plotting calls of the invocation.
ThePie == charts[CHOOSE i \in 1..Len(charts) : charts[i].what = "pie"]

RECURSIVE PositiveOnly(_)
PositiveOnly(pairs) ==
    IF pairs = <<>> THEN <<>>
    ELSE IF Head(pairs)[2] > 0
         THEN <<Head(pairs)>> \o PositiveOnly(Tail(pairs))
         ELSE PositiveOnly(Tail(pairs))

\* C5: pie_chart_weights plots exactly the assets whose weight is strictly
\* positive, in their original order, as slices and in both legends, and the
\* legend percentages are taken against the total of the positive weights.
C5_PositiveOnly ==
    PieDrawn =>
        LET kept == PositiveOnly(args.weights.w)
            total == SumSizes([i \in 1..Len(kept) |-> kept[i][2]])
        IN  /\ Cardinality({i \in 1..Len(charts) : charts[i].what = "pie"}) = 1
            /\ Len(ThePie.slices) = Len(kept)
            /\ Len(ThePie.tickers) = Len(kept)
            /\ Len(ThePie.shares) = Len(kept)
            /\ \A i \in 1..Len(kept) :
                  /\ ThePie.slices[i].stock = kept[i][1]
                  /\ ThePie.slices[i].size = kept[i][2]
                  /\ ThePie.slices[i].size > 0
                  /\ ThePie.tickers[i] = kept[i][1]
                  /\ ThePie.shares[i] = LegendPercent(kept[i][2], total)

\* A negative and a zero weight are left out and the positive one is plotted.
C5_Witness ==
    /\ PieDrawn
    /\ \E i, j, k \in 1..Len(args.weights.w) :
          /\ args.weights.w[i][2] < 0
          /\ args.weights.w[j][2] = 0
          /\ args.weights.w[k][2] > 0
    /\ Len(ThePie.slices) = 1
    /\ ThePie.shares = << <<"1", "0", "0", ".", "0", "0", "%">> >>

\* C6 as stated: in both branches a slice's label is suppressed when the slice
\* is below 4% of the plotted total and shown when it is above 4%.
C6_FourPercentThreshold ==
    PieDrawn =>
        LET total == SumSizes([i \in 1..Len(ThePie.slices) |-> ThePie.slices[i].size])
        IN  \A i \in 1..Len(ThePie.slices) :
                /\ 100 * ThePie.slices[i].size < 4 * total => ThePie.slices[i].label = <<>>
                /\ 100 * ThePie.slices[i].size > 4 * total => ThePie.slices[i].label # <<>>

----------------------------------------------------------------------------
(* Claims about the display functions *)

Optimizers ==
    { "optimizer_model.get_mean_risk_portfolio",
      "optimizer_model.get_max_diversification_portfolio",
      "optimizer_model.get_max_decorrelation_portfolio",
      "optimizer_model.get_risk_parity_portfolio",
      "optimizer_model.get_rel_risk_parity_portfolio",
      "optimizer_model.get_hcp_portfolio",
      "port.optimization" }

Builders == {"optimizer_model.get_equal_weights", "optimizer_model.get_property_weights"}

\* The positions in the trace of the calls that return weights.
WeightCalls ==
    {i \in 1..Len(trace) :
        trace[i].kind = "call" /\ trace[i].e.who \in Optimizers \cup Builders}

\* The optimizer was called and returned None.
NoSolution ==
    \E i \in WeightCalls : trace[i].e.who \in Optimizers /\ trace[i].e.returned.none

Count(what) == Cardinality({i \in 1..Len(console) : console[i].what = what})

ReturnedNone == result.kind = "return" /\ result.value = None

LookupFailure ==
    /\ result.kind = "raise"
    /\ result.exc = "KeyError"
    /\ result.at \in {"risk_names", "risk_choices", "objectives_choices"}

\* The period and the frequency of the invocation are ones the function accepts.
PeriodAndFreqFine ==
    /\ ~d_period(args.period, args.start, args.end, args.today).exc.raised
    /\ Has(time_factor, Upper(args.freq))

\* C1: in display_mean_risk, display_max_div, display_max_decorr,
\* display_risk_parity, display_rel_risk_parity and display_hcp, when the
\* optimizer returns None the function prints exactly one 'no solution'
\* notice, no title, no weights table and no performance line, and returns
\* None without raising.
C1_NoSolutionNotice ==
    (/\ fn \in {"display_mean_risk", "display_max_div", "display_max_decorr",
                "display_risk_parity", "display_rel_risk_parity", "display_hcp"}
     /\ NoSolution)
    => /\ Count("notice") = 1
       /\ Count("title") = 0
       /\ Count("table") = 0
       /\ Count("perf") = 0
       /\ charts = <<>>
       /\ ReturnedNone

\* display_hcp was told there is no solution, and display_mean_risk too.
C1_Witness ==
    /\ fn = "display_hcp"
    /\ args.model = "NCO"
    /\ NoSolution
    /\ console = <<Notice>>

\* No two keys share a value: there are as many values as keys.
Injective(d) == Cardinality({d[k] : k \in DOMAIN d}) = Cardinality(DOMAIN d)

\* C2: risk_names and risk_choices have exactly the same keys, each key once,
\* and within each table no two keys share a value; so the risk measure of
\* an invocation is accepted by one table exactly when the other accepts it.
C2_TablesAgree ==
    /\ "risk_measure" \in DOMAIN args
          => (Has(risk_names, args.risk_measure) <=> Has(risk_choices, args.risk_measure))
    /\ DOMAIN risk_names = DOMAIN risk_choices
    /\ Cardinality(DOMAIN risk_names) = Len(risk_names_rows)
    /\ Cardinality(DOMAIN risk_choices) = Len(risk_choices_rows)
    /\ Injective(risk_names)
    /\ Injective(risk_choices)

\* A key is translated by both tables in one invocation: its name is in the
\* title and its short code goes to the optimizer.
C2_Witness ==
    /\ fn = "display_risk_parity"
    /\ args.risk_measure = <<"u", "c", "i", "_", "r", "e", "l">>
    /\ \E i \in 1..Len(console) :
          console[i].what = "title" /\ console[i].name = <<"u", "l", "c", "e", "r", " ", "i", "n", "d", "e", "x", " ", "c", "o", "m", "p", "o", "u", "n", "d", "e", "d">>
    /\ \E i \in 1..Len(calls) : calls[i].params = [risk_measure |-> <<"U", "C", "I", "_", "R", "e", "l">>]

\* C3 as stated: display_max_sharpe, display_min_risk, display_max_util,
\* display_max_ret and display_ef, called with risk_measure at its declared
\* default 'MV', translate it without a lookup failure and go on to call
\* the optimizer.
C3_DefaultTranslates ==
    (/\ fn \in {"display_max_sharpe", "display_min_risk", "display_max_util",
                "display_max_ret", "display_ef"}
     /\ args.risk_measure = <<"M", "V">>
     /\ PeriodAndFreqFine)
    => /\ ~LookupFailure
       /\ \E i \in WeightCalls : trace[i].e.who \in Optimizers

TakesNames ==
    {"display_equal_weight", "display_property_weighting", "display_mean_risk",
     "display_max_sharpe", "display_min_risk", "display_max_util", "display_max_ret",
     "display_ef", "display_risk_parity", "display_hcp", "display_hrp",
     "display_herc", "display_nco"}

UnrecognizedName ==
    \/ ~Has(risk_names, args.risk_measure)
    \/ ~Has(risk_choices, args.risk_measure)
    \/ "objective" \in DOMAIN args /\ ~Has(objectives_choices, args.objective)

\* C7 as stated: in every public function that takes a risk-measure or an
\* objective name, the failure an unrecognized name causes is a lookup
\* failure raised by risk_names, risk_choices or objectives_choices, never
\* another kind of error.  (Period, frequency and model are fine, so that
\* the name is the only cause of failure.)
C7_LookupFailureOnly ==
    (/\ fn \in TakesNames
     /\ PeriodAndFreqFine
     /\ "model" \in DOMAIN args => args.model \in TitledModels
     /\ UnrecognizedName)
    => LookupFailure

GetsWeightsFromOptimizer ==
    {"display_mean_risk", "display_max_sharpe", "display_min_risk", "display_max_util",
     "display_max_ret", "display_max_div", "display_max_decorr", "display_ef",
     "display_risk_parity", "display_rel_risk_parity", "display_hcp", "display_hrp",
     "display_herc", "display_nco"}

\* C8 as stated: every public function that obtains weights from an
\* optimizer, display_ef included, detects a no-solution result, prints
\* the notice and returns without raising.
C8_UniformFailureHandling ==
    (fn \in GetsWeightsFromOptimizer /\ NoSolution)
    => /\ Count("notice") = 1
       /\ result.kind = "return"

DisplayFunctions == GetsWeightsFromOptimizer \cup {"display_equal_weight", "display_property_weighting"}

\* In the tables as written, lower-casing a short code gives its key back, and
\* that key has a name.
ShortCodesLowerToKeys ==
    \A k \in DOMAIN Imported.risk_choices :
        /\ Lower(Imported.risk_choices[k]) = k
        /\ Has(Imported.risk_names, Lower(Imported.risk_choices[k]))

\* C9: lower-casing the short code of a key gives the key back, so the name
\* lookup risk_names[risk_measure.lower()] of portfolio_performance succeeds
\* for every short code a display function passes: no display function that
\* has printed its title ends in a KeyError of risk_names.
C9_LowerRoundTrip ==
    /\ ShortCodesLowerToKeys
    /\ risk_choices = Imported.risk_choices
    /\ (fn \in DisplayFunctions /\ Count("title") = 1)
       => ~(result.kind = "raise" /\ result.exc = "KeyError" /\ result.at = "risk_names")

\* display_risk_parity with 'cdar_rel' passes 'CDaR_Rel' to
\* portfolio_performance, which finds its name and prints the two risk lines.
C9_Witness ==
    /\ fn = "display_risk_parity"
    /\ args.risk_measure = <<"c", "d", "a", "r", "_", "r", "e", "l">>
    /\ result.kind = "return"
    /\ \E i \in 1..Len(calls) :
          calls[i].who = "rp.Sharpe_Risk" /\ calls[i].params.rm = <<"C", "D", "a", "R", "_", "R", "e", "l">>
    /\ \E i \in 1..Len(console) :
          /\ console[i].what = "perf"
          /\ console[i].label = "Return / risk ratio"
          /\ console[i].text = risk_names[<<"c", "d", "a", "r", "_", "r", "e", "l">>]

\* A rendering step: a weights table or any plotting call.
Renders(ev) == ev.kind = "chart" \/ (ev.kind = "print" /\ ev.e.what = "table")

\* C10 as stated: in every invocation of a display function the optimizer or
\* weight builder is called at most once, and after a no-solution result no
\* further collaborator call and no rendering call is made.
C10_NoRetry ==
    fn \in DisplayFunctions
    => /\ Cardinality(WeightCalls) <= 1
       /\ \A i \in WeightCalls :
             (trace[i].e.who \in Optimizers /\ trace[i].e.returned.none)
             => \A j \in (i + 1)..Len(trace) :
                    trace[j].kind # "call" /\ ~Renders(trace[j])

----------------------------------------------------------------------------
(* Claims about the reports *)

\* The builder answered display_equal_weight's request with equal weights.
EqualWeightsBuilt ==
    /\ fn = "display_equal_weight"
    /\ \E i \in 1..Len(calls) :
          /\ calls[i].who = "optimizer_model.get_equal_weights"
          /\ calls[i].params = [stocks |-> args.stocks, value |-> args.value]
          /\ calls[i].returned = get_equal_weights(args.stocks, args.value)

\* C11: display_equal_weight for 4 tickers and value 1 returns a mapping that
\* gives each ticker 0.25 (value / n for n tickers), which is exactly the
\* mapping the equal-weight builder produced.
C11_EqualWeights ==
    (EqualWeightsBuilt /\ result.kind = "return")
    => /\ result.value = get_equal_weights(args.stocks, args.value)
       /\ Keys(result.value.w) = args.stocks
       /\ \A i \in 1..Len(args.stocks) :
             result.value.w[i][2] * Len(args.stocks) = args.value
       /\ (Len(args.stocks) = 4 /\ args.value = 100)
             => \A i \in 1..4 : result.value.w[i][2] = 25

\* Four tickers, value 1: the report is printed and 0.25 each is returned.
C11_Witness ==
    /\ EqualWeightsBuilt
    /\ Len(args.stocks) = 4
    /\ args.value = 100
    /\ result.kind = "return"
    /\ Values(result.value.w) = <<25, 25, 25, 25>>
    /\ Count("table") = 1
    /\ Count("perf") >= 3

\* The labels of the performance lines printed, in order.
PerfLabels ==
    LET s == SelectSeq(console, LAMBDA e : e.what = "perf")
    IN  [i \in 1..Len(s) |-> s[i].label]

ThreeLines == <<"expected return", "volatility", "Sharpe ratio">>

\* C12: portfolio_performance prints the annualized expected return, the
\* annualized volatility and the Sharpe ratio, in that order, for every risk
\* measure; exactly these three lines when the risk measure is 'MV', and
\* exactly two further lines (the risk value, then the return/risk ratio)
\* for any other risk measure.
C12_PerformanceLines ==
    (fn = "portfolio_performance" /\ result.kind = "return")
    => /\ Len(console) = Len(PerfLabels)
       /\ SubSeq(PerfLabels, 1, 3) = ThreeLines
       /\ \A i \in 1..2 : console[i].by = time_factor[Upper(args.freq)]
       /\ IF args.risk_measure = <<"M", "V">>
          THEN PerfLabels = ThreeLines
          ELSE PerfLabels = ThreeLines \o <<"risk", "Return / risk ratio">>

\* A report for the conditional drawdown at risk: five lines.
C12_Witness ==
    /\ fn = "portfolio_performance"
    /\ args.risk_measure = <<"C", "D", "a", "R">>
    /\ args.freq = <<"w">>
    /\ result.kind = "return"
    /\ Len(PerfLabels) = 5

\* The calls of the risk scorer made by the performance report.
ScorerCalls == SelectSeq(calls, LAMBDA c : c.who = "rp.Sharpe_Risk")

ChartsDrawn ==
    SelectSeq(charts, LAMBDA c : c.what \in {"pie", "rp.plot_frontier", "rp.plot_hist",
                                             "rp.plot_drawdown", "rp.plot_risk_con",
                                             "rp.plot_clusters"})

Drawn(what) == Cardinality({i \in 1..Len(charts) : charts[i].what = what})

\* C14 as stated: every plotting function (pie_chart_weights, each chart of
\* additional_plots, display_ef) draws on external_axes[0] when external axes
\* are supplied and then never calls theme.visualize_output; when
\* external_axes is None it creates its own figure and calls
\* theme.visualize_output exactly once for each chart it draws.
C14_ExternalAxes ==
    fn \in {"pie_chart_weights", "additional_plots", "display_ef"}
    => IF args.external_axes = "None"
       THEN /\ \A i \in 1..Len(ChartsDrawn) : ChartsDrawn[i].ax = "own"
            /\ Drawn("subplots") >= Len(ChartsDrawn)
            /\ Drawn("visualize_output") = Len(ChartsDrawn)
       ELSE /\ \A i \in 1..Len(ChartsDrawn) : ChartsDrawn[i].ax = "external_axes[0]"
            /\ Drawn("subplots") = 0
            /\ Drawn("visualize_output") = 0

\* C15: the module keeps no state across calls: after any sequence of
\* invocations the tables objectives_choices, risk_names, risk_choices and
\* time_factor are as the import left them, so what an invocation prints and
\* returns depends on its own arguments and on the collaborators' replies
\* only, not on the invocations before it.
C15_NoStateKept ==
    /\ objectives_choices = Imported.objectives_choices
    /\ risk_names = Imported.risk_names
    /\ risk_choices = Imported.risk_choices
    /\ time_factor = Imported.time_factor

\* An invocation that consulted all four tables has completed.
C15_Witness ==
    /\ fn = "display_mean_risk"
    /\ result.kind = "return"
    /\ ~result.value.none
    /\ args.risk_measure = <<"c", "d", "a", "r", "_", "r", "e", "l">>
    /\ Len(PerfLabels) = 5
    /\ module = Imported

\* C16 as stated: display_nco called with its documented default objective
\* ('MinRisk'), or with any of its documented objective values, passes that
\* objective to the hierarchical-clustering builder through display_hcp.
\* (Period, frequency and risk measure are ones the function accepts.)
C16_NcoObjectivePassed ==
    (/\ fn = "display_nco"
     /\ args.objective \in DocumentedNcoObjectives
     /\ PeriodAndFreqFine
     /\ Has(risk_names, args.risk_measure) /\ Has(risk_choices, args.risk_measure))
    => \E i \in 1..Len(calls) :
          /\ calls[i].who = "optimizer_model.get_hcp_portfolio"
          /\ calls[i].params.model = "NCO"
          /\ calls[i].params.objective = args.objective

\* The optimizer found a portfolio.
Solved ==
    \E i \in WeightCalls :
        /\ trace[i].e.who \in Optimizers
        /\ ~trace[i].e.returned.none
        /\ trace[i].e.returned.w # <<>>

\* A number of days, written in digits.
IsDays(freq) ==
    /\ freq # <<>>
    /\ \A i \in 1..Len(freq) : freq[i] \in {"0", "1", "2", "3", "4", "5", "6", "7", "8", "9"}

\* C17 as stated: display_risk_parity and display_rel_risk_parity accept,
\* besides 'D', 'W' and 'M' (in either letter case), a freq given as an
\* integer number of days, and complete the title, the weights table and the
\* performance report for it.
C17_IntegerFrequency ==
    (/\ fn \in {"display_risk_parity", "display_rel_risk_parity"}
     /\ IsDays(args.freq) \/ Upper(args.freq) \in {<<"D">>, <<"W">>, <<"M">>}
     /\ Solved)
    => /\ result.kind = "return"
       /\ Count("title") = 1
       /\ Count("table") = 1
       /\ Count("perf") >= 3

\* The days today's date may be replaced by: the latest day up to today that
\* is not a Saturday or a Sunday.
LastWeekdays(today) ==
    {d \in 1..today :
        /\ Calendar[d].weekday < 5
        /\ \A e \in (d + 1)..today : Calendar[e].weekday >= 5}

FromTo(start, end) == <<"[", "F", "r", "o", "m", " ">> \o start \o <<" ", "t", "o", " ">> \o end \o <<"]">>

\* C18: with a non-empty start, d_period returns '[From <start> to <end>]'
\* whatever the period is; an empty end is replaced by today's date, or by
\* the preceding Friday if today is a Saturday or a Sunday, so the date put
\* in is never a weekend day; an end given by the caller is used unchanged.
C18_FromTo ==
    (fn = "d_period" /\ args.start # <<>>)
    => /\ result.kind = "return"
       /\ IF args.end # <<>>
          THEN result.value = FromTo(args.start, args.end)
          ELSE \E d \in LastWeekdays(args.today) :
                  /\ result.value = FromTo(args.start, Calendar[d].iso)
                  /\ Calendar[d].weekday = IF Calendar[args.today].weekday >= 5
                                           THEN 4 ELSE Calendar[args.today].weekday

\* Called on a Sunday without an end and with no period at all: the Friday
\* before is put in.
C18_Witness ==
    /\ fn = "d_period"
    /\ args.period = <<>>
    /\ args.start = <<"2", "0", "2", "2", "-", "0", "1", "-", "0", "3">>
    /\ args.end = <<>>
    /\ Calendar[args.today].weekday = 6
    /\ result.value = <<"[", "F", "r", "o", "m", " ", "2", "0", "2", "2", "-", "0", "1", "-", "0", "3", " ", "t", "o", " ", "2", "0", "2", "2", "-", "0", "4", "-", "2", "9", "]">>

\* The calls of one public function by another, in order.
entered == OfKind("enter")

\* What the optimizer answered in this invocation (None if it was not asked).
ReplySeen ==
    LET asked == {i \in WeightCalls : trace[i].e.who \in Optimizers}
    IN  [weights |-> IF asked = {} THEN None
                     ELSE trace[CHOOSE i \in asked : TRUE].e.returned,
         columns |-> <<"AAPL", "MSFT">>]

\* The objective or the model a wrapper fixes.
Fixed(a) ==
    CASE fn = "display_max_sharpe" -> With(a, "objective", <<"s", "h", "a", "r", "p", "e">>)
      [] fn = "display_min_risk" -> With(a, "objective", <<"m", "i", "n", "r", "i", "s", "k">>)
      [] fn = "display_max_util" -> With(a, "objective", <<"u", "t", "i", "l", "i", "t", "y">>)
      [] fn = "display_max_ret" -> With(a, "objective", <<"m", "a", "x", "r", "e", "t">>)
      [] fn = "display_hrp" -> With(With(a, "model", "HRP"), "objective", <<"m", "i", "n", "r", "i", "s", "k">>)
      [] fn = "display_herc" -> With(With(a, "model", "HERC"), "objective", <<"m", "i", "n", "r", "i", "s", "k">>)
      [] fn = "display_nco" -> With(a, "model", "NCO")

MeanRiskWrappers == {"display_max_sharpe", "display_min_risk", "display_max_util", "display_max_ret"}

HcpWrappers == {"display_hrp", "display_herc", "display_nco"}

\* The run of the general function for the wrapper's arguments and the same
\* answer of the optimizer.
General ==
    IF fn \in MeanRiskWrappers
    THEN display_mean_risk(Fixed(args), ReplySeen)
    ELSE display_hcp(Fixed(args), ReplySeen)

Prints(events) ==
    LET s == SelectSeq(events, LAMBDA ev : ev.kind = "print")
    IN  [i \in 1..Len(s) |-> s[i].e]

\* C19: each convenience wrapper is its general function with one selector
\* fixed: display_max_sharpe, display_min_risk, display_max_util and
\* display_max_ret are display_mean_risk with objective 'sharpe', 'minrisk',
\* 'utility', 'maxret'; display_hrp, display_herc and display_nco are
\* display_hcp with model 'HRP', 'HERC', 'NCO'.  The general function is
\* called exactly once with the remaining arguments unchanged, and the
\* console output and the result are those of the general function.
C19_Wrappers ==
    fn \in MeanRiskWrappers \cup HcpWrappers
    => /\ Len(entered) = 1
       /\ entered[1].who = IF fn \in MeanRiskWrappers THEN "display_mean_risk"
                                                      ELSE "display_hcp"
       /\ entered[1].params = Fixed(args)
       /\ console = Prints(General.did.trace)
       /\ result = Outcome(General)

\* display_max_util printed the report of the utility objective and returned
\* the weights.
C19_Witness ==
    /\ fn = "display_max_util"
    /\ result.kind = "return"
    /\ ~result.value.none
    /\ Len(entered) = 1
    /\ entered[1].params.objective = <<"u", "t", "i", "l", "i", "t", "y">>
    /\ \E i \in 1..Len(console) :
          /\ console[i].what = "title"
          /\ console[i].text = "Maximal risk averse utility function portfolio using"

\* The optimizer answered with an empty weight mapping.
EmptySolution ==
    \E i \in WeightCalls :
        /\ trace[i].e.who \in Optimizers
        /\ ~trace[i].e.returned.none
        /\ trace[i].e.returned.w = <<>>

\* C20 as stated: when the optimizer returns an empty weight mapping instead
\* of None, the display functions treat it like the no-solution sentinel:
\* exactly one notice is printed, no title, weights table or performance
\* report is produced, and the function returns without raising.
C20_EmptyMappingIsNoSolution ==
    (fn \in GetsWeightsFromOptimizer \ {"display_ef"} /\ EmptySolution)
    => /\ Count("notice") = 1
       /\ Count("title") = 0
       /\ Count("table") = 0
       /\ Count("perf") = 0
       /\ result.kind = "return"

----------------------------------------------------------------------------
(* Claims about translation, order and the period label *)

\* C21 as stated: for every key of objectives_choices (minrisk, sharpe,
\* utility, maxret, erc), display_mean_risk and display_hcp translate the
\* objective into the library's value and call the optimizer with that value.
\* (Period, frequency, model and risk measure are ones the function accepts.)
C21_ObjectiveTranslated ==
    (/\ fn \in {"display_mean_risk", "display_hcp"}
     /\ Has(objectives_choices, args.objective)
     /\ PeriodAndFreqFine
     /\ fn = "display_hcp" => args.model \in TitledModels
     /\ Has(risk_names, args.risk_measure) /\ Has(risk_choices, args.risk_measure))
    => \E i \in WeightCalls :
          /\ trace[i].e.who \in Optimizers
          /\ trace[i].e.params.objective = objectives_choices[args.objective]

\* The invocation failed on the translation of a name: a key missing from
\* a table, or a title that no branch of the objective or model chain set.
FailedOnTranslation ==
    /\ result.kind = "raise"
    /\ \/ LookupFailure
       \/ result.exc = "UnboundLocalError" /\ result.at = "s_title"

\* C22 as stated: in every public display function, a risk-measure,
\* objective or model name that cannot be translated makes the invocation
\* fail before the collaborator is called and before anything is printed: no
\* invocation prints a title or a weights table and then fails on name
\* translation.
C22_TranslateFirst ==
    (fn \in DisplayFunctions /\ FailedOnTranslation)
    => /\ calls = <<>>
       /\ console = <<>>

\* A weight-producing display function returned weights.
Succeeded ==
    /\ fn \in DisplayFunctions \ {"display_ef"}
    /\ result.kind = "return"
    /\ ~result.value.none

\* What was printed, in order.
Printout == [i \in 1..Len(console) |-> console[i].what]

Perf(n) == [i \in 1..n |-> "perf"]

\* The positions in the trace of the prints.
PrintedAt == {i \in 1..Len(trace) : trace[i].kind = "print"}

\* C23: on a successful run of any weight-producing display function the
\* console output comes in a fixed order: the title, then the weights table,
\* then the performance lines, then a final blank line; and nothing is
\* printed before the collaborator has returned its weights.
C23_OutputOrder ==
    Succeeded
    => /\ \E n \in {3, 5} : Printout = <<"title", "table">> \o Perf(n) \o <<"blank">>
       /\ Cardinality(WeightCalls) = 1
       /\ \A c \in WeightCalls : \A p \in PrintedAt : c < p

\* display_hcp reported a portfolio for a measure other than the variance.
C23_Witness ==
    /\ fn = "display_hcp"
    /\ Succeeded
    /\ args.risk_measure = <<"c", "d", "a", "r", "_", "r", "e", "l">>
    /\ Printout = <<"title", "table">> \o Perf(5) \o <<"blank">>

\* C24: on success every weight-producing display function returns the very
\* weight mapping the collaborator returned, with the same keys and values:
\* displaying the weights and reporting the performance leave it as it was.
C24_WeightsUntouched ==
    Succeeded
    => \A c \in WeightCalls :
          /\ result.value = trace[c].e.returned
          /\ Keys(result.value.w) = Keys(trace[c].e.returned.w)
          /\ Values(result.value.w) = Values(trace[c].e.returned.w)

\* display_max_div reported the portfolio it was given and returned it.
C24_Witness ==
    /\ fn = "display_max_div"
    /\ Succeeded
    /\ Count("table") = 1
    /\ Count("perf") = 3
    /\ result.value = Dict(<< <<"AAPL", 191>>, <<"MSFT", 9>> >>)
    /\ \E c \in WeightCalls : trace[c].e.returned = result.value

\* The units d_period knows: the suffix of the period and the unit's name.
C25_Units ==
    { [suffix |-> <<"d">>, unit |-> <<"D", "a", "y">>], [suffix |-> <<"w">>, unit |-> <<"W", "e", "e", "k">>],
      [suffix |-> <<"m", "o">>, unit |-> <<"M", "o", "n", "t", "h">>], [suffix |-> <<"y">>, unit |-> <<"Y", "e", "a", "r">>] }

IsNumber(n) ==
    /\ n # <<>>
    /\ \A i \in 1..Len(n) : n[i] \in {"0", "1", "2", "3", "4", "5", "6", "7", "8", "9"}

EndsWith(s, suffix) ==
    /\ Len(s) >= Len(suffix)
    /\ SubSeq(s, Len(s) - Len(suffix) + 1, Len(s)) = suffix

\* C25: with an empty start, d_period maps 'ytd' to '[Year-to-Date]', 'max'
\* to '[All-time]', and <n>d, <n>w, <n>mo, <n>y to '[<n> Days]', '[<n> Weeks]',
\* '[<n> Months]', '[<n> Years]', with the singular unit exactly when n is 1.
C25_PeriodLabels ==
    (fn = "d_period" /\ args.start = <<>>)
    => /\ args.period = <<"y", "t", "d">> => result.value = <<"[", "Y", "e", "a", "r", "-", "t", "o", "-", "D", "a", "t", "e", "]">>
       /\ args.period = <<"m", "a", "x">> => result.value = <<"[", "A", "l", "l", "-", "t", "i", "m", "e", "]">>
       /\ \A u \in C25_Units :
             LET n == ButLast(args.period, Len(u.suffix))
             IN  (EndsWith(args.period, u.suffix) /\ IsNumber(n))
                 => /\ result.kind = "return"
                    /\ result.value = <<"[">> \o n \o <<" ">> \o u.unit
                                        \o (IF n = <<"1">> THEN <<>> ELSE <<"s">>)
                                        \o <<"]">>

\* One month is a month.
C25_Witness ==
    /\ fn = "d_period"
    /\ args.start = <<>>
    /\ args.period = <<"1", "m", "o">>
    /\ result.kind = "return"
    /\ result.value = <<"[", "1", " ", "M", "o", "n", "t", "h", "]">>

\* The functions that start by asking d_period for the label of the period.
CallsDPeriod == DisplayFunctions \ {"display_ef"}

\* A period d_period has no label for.
NoLabelFor(period) ==
    /\ period \notin {<<"y", "t", "d">>, <<"m", "a", "x">>}
    /\ period = <<>> \/ LastChar(period) \notin {"d", "w", "o", "y"}

\* C26: with an empty start, d_period returns a label only when period is
\* 'ytd', 'max' or a string ending in 'd', 'w', 'o' or 'y'; for any other
\* period, the empty string included, it raises, so the display function that
\* called it fails before its collaborator is called.
C26_NoLabelRaises ==
    /\ (fn = "d_period" /\ args.start = <<>>)
       => /\ result.kind = "return" <=> ~NoLabelFor(args.period)
          /\ NoLabelFor(args.period)
             => result.exc = IF args.period = <<>> THEN "IndexError"
                                                   ELSE "UnboundLocalError"
    /\ (fn \in CallsDPeriod /\ args.start = <<>> /\ NoLabelFor(args.period))
       => /\ result.kind = "raise"
          /\ result.exc \in {"IndexError", "UnboundLocalError"}
          /\ calls = <<>>
          /\ console = <<>>

\* display_mean_risk for the period '5x': no label, no optimizer call.
C26_Witness ==
    /\ fn = "display_mean_risk"
    /\ args.start = <<>>
    /\ args.period = <<"5", "x">>
    /\ result.kind = "raise"
    /\ result.exc = "UnboundLocalError"
    /\ calls = <<>>

====
